---- MODULE Spec2Model ----
(***************************************************************************)
(* Model of app.py: the 2x2 Hill cipher over A-Z (arithmetic modulo 26)    *)
(* and the Streamlit session that drives it (key configuration, Encrypt,   *)
(* Decrypt).                                                               *)
(*                                                                         *)
(* A text is a sequence of one-character strings.  A matrix is a pair of   *)
(* rows <<<<a, b>>, <<c, d>>>>.  Python's None is the empty tuple.         *)
(***************************************************************************)
EXTENDS Integers, Sequences, FiniteSets, TLC

VARIABLES key_matrix, key_inverse, last_cipher, op, arg, ret

vars == <<key_matrix, key_inverse, last_cipher, op, arg, ret>>

-----------------------------------------------------------------------------
(* Bounds of the model.                                                    *)

\* Number of keys of KeyPool that can be typed or sampled during a session.
MaxKeys == 4

\* Longest text typed into a text area during a session.
MaxLen == 2

\* Number of keys of KeyPool and longest text handed to the cipher functions
\* when they are exercised on their own.
MaxFnKeys == 8

MaxFnLen == 4

-----------------------------------------------------------------------------
(* Constants and mappings (app.py, lines 31-41).                           *)

alphabet ==
  << "A", "B", "C", "D", "E", "F", "G", "H", "I", "J", "K", "L", "M",
     "N", "O", "P", "Q", "R", "S", "T", "U", "V", "W", "X", "Y", "Z" >>

\* The lower-case letters the regular expression [^A-Za-z] keeps and that
\* str.upper folds onto alphabet.
lowercase ==
  << "a", "b", "c", "d", "e", "f", "g", "h", "i", "j", "k", "l", "m",
     "n", "o", "p", "q", "r", "s", "t", "u", "v", "w", "x", "y", "z" >>

modulus == 26

\* Upper limit of the number_input widgets and of random.randint.
MaxKeyValue == 25

letter_to_num(ch) == (CHOOSE i \in 1..modulus : alphabet[i] = ch) - 1

num_to_letter(n) == alphabet[n + 1]

\* The table without its entry for 15.

mod_inverse_missing ==
  1 :> 1 @@ 3 :> 9 @@ 5 :> 21 @@ 7 :> 15 @@ 9 :> 3 @@ 11 :> 19 @@
  17 :> 23 @@ 19 :> 11 @@ 21 :> 5 @@ 23 :> 17 @@ 25 :> 25

\* The table with the inverses of 17 and 23 written as 17 and 23.

mod_inverse_swapped ==
  1 :> 1 @@ 3 :> 9 @@ 5 :> 21 @@ 7 :> 15 @@ 9 :> 3 @@ 11 :> 19 @@
  15 :> 7 @@ 17 :> 17 @@ 19 :> 11 @@ 21 :> 5 @@ 23 :> 23 @@ 25 :> 25

mod_inverse ==
  1 :> 1 @@ 3 :> 9 @@ 5 :> 21 @@ 7 :> 15 @@ 9 :> 3 @@ 11 :> 19 @@
  15 :> 7 @@ 17 :> 23 @@ 19 :> 11 @@ 21 :> 5 @@ 23 :> 17 @@ 25 :> 25

None == << >>

-----------------------------------------------------------------------------
(* Helper functions (app.py, lines 47-125).  A function that can raise     *)
(* returns a record: [ok |-> TRUE, val |-> v] for "return v", and          *)
(* [ok |-> FALSE, det |-> a] for the ValueError whose message names a.     *)

find_inverse(a) ==
  LET r == a % modulus
  IN  IF r \in DOMAIN mod_inverse
        THEN [ok |-> TRUE, val |-> mod_inverse[r]]
        ELSE [ok |-> FALSE, det |-> r]

\* inverse_matrix_mod26 with the off-diagonal of the adjugate not negated.

inverse_matrix_mod26_no_negation(K) ==
  LET a == K[1][1]
      b == K[1][2]
      c == K[2][1]
      d == K[2][2]
      det == (a * d - b * c) % modulus
      inv_det == find_inverse(det)
      adj == << <<d, b>>, <<c, a>> >>
  IN  IF inv_det.ok
        THEN [ok  |-> TRUE,
              val |-> [i \in 1..2 |->
                        [j \in 1..2 |-> (inv_det.val * adj[i][j]) % modulus]]]
        ELSE inv_det

inverse_matrix_mod26(K) ==
  LET a == K[1][1]
      b == K[1][2]
      c == K[2][1]
      d == K[2][2]
      det == (a * d - b * c) % modulus
      inv_det == find_inverse(det)
      adj == << <<d, -b>>, <<-c, a>> >>
  IN  IF inv_det.ok
        THEN [ok  |-> TRUE,
              val |-> [i \in 1..2 |->
                        [j \in 1..2 |-> (inv_det.val * adj[i][j]) % modulus]]]
        ELSE inv_det

IsAlpha(ch) ==
  \/ \E i \in 1..modulus : alphabet[i] = ch
  \/ \E i \in 1..modulus : lowercase[i] = ch

\* str.upper on one character: a lower-case letter becomes its capital, and
\* capitals, digits, punctuation and white space stay as they are.
upper_char(ch) ==
  IF \E i \in 1..modulus : lowercase[i] = ch
    THEN alphabet[CHOOSE i \in 1..modulus : lowercase[i] = ch]
    ELSE ch

upper(text) == [i \in 1..Len(text) |-> upper_char(text[i])]

\* str.replace(ch, ""): every occurrence of the character is removed.
remove_char(text, ch) == SelectSeq(text, LAMBDA x : x # ch)

\* text[i:j] of Python, i and j counted from 0 and clipped to the text.
slice(text, i, j) ==
  SubSeq(text, i + 1, IF j < Len(text) THEN j ELSE Len(text))

clean_text_keep_alpha(text) == upper(SelectSeq(text, IsAlpha))

pad_text(text) ==
  IF Len(text) % 2 # 0 THEN Append(text, "X") ELSE text

text_to_numbers(text) == [i \in 1..Len(text) |-> letter_to_num(text[i])]

numbers_to_text(nums) ==
  [i \in 1..Len(nums) |-> num_to_letter(nums[i] % modulus)]

\* Both block functions return (text, result numbers, input numbers).
encrypt_block(block, K) ==
  LET p == text_to_numbers(block)
      c1 == (K[1][1] * p[1] + K[1][2] * p[2]) % modulus
      c2 == (K[2][1] * p[1] + K[2][2] * p[2]) % modulus
  IN  << numbers_to_text(<<c1, c2>>), <<c1, c2>>, <<p[1], p[2]>> >>

\* decrypt_block with p2 reading K_inv[0][0] instead of K_inv[1][0].

decrypt_block_row_slip(block, K_inv) ==
  LET c == text_to_numbers(block)
      p1 == (K_inv[1][1] * c[1] + K_inv[1][2] * c[2]) % modulus
      p2 == (K_inv[1][1] * c[1] + K_inv[2][2] * c[2]) % modulus
  IN  << numbers_to_text(<<p1, p2>>), <<p1, p2>>, <<c[1], c[2]>> >>

decrypt_block(block, K_inv) ==
  LET c == text_to_numbers(block)
      p1 == (K_inv[1][1] * c[1] + K_inv[1][2] * c[2]) % modulus
      p2 == (K_inv[2][1] * c[1] + K_inv[2][2] * c[2]) % modulus
  IN  << numbers_to_text(<<p1, p2>>), <<p1, p2>>, <<c[1], c[2]>> >>

\* The loop "for i in range(0, len(padded), 2)" of encrypt_full, from
\* position i on, with the ciphertext and the blocks gathered so far.
RECURSIVE encrypt_loop(_, _, _, _, _)
encrypt_loop(padded, K, i, ciphertext, blocks) ==
  IF i >= Len(padded)
    THEN [ciphertext |-> ciphertext, blocks |-> blocks]
    ELSE LET block == slice(padded, i, i + 2)
             r == encrypt_block(block, K)
         IN  encrypt_loop(padded, K, i + 2, ciphertext \o r[1],
                          Append(blocks, [plain_block  |-> block,
                                          plain_nums   |-> r[3],
                                          cipher_nums  |-> r[2],
                                          cipher_block |-> r[1]]))

encrypt_full(plaintext, K) ==
  LET cleaned == clean_text_keep_alpha(plaintext)
      padded == pad_text(cleaned)
      done == encrypt_loop(padded, K, 0, << >>, << >>)
  IN  [cleaned    |-> cleaned,
       padded     |-> padded,
       ciphertext |-> done.ciphertext,
       blocks     |-> done.blocks]

RECURSIVE decrypt_loop(_, _, _, _, _)
decrypt_loop(cleaned, K_inv, i, plaintext, blocks) ==
  IF i >= Len(cleaned)
    THEN [plaintext |-> plaintext, blocks |-> blocks]
    ELSE LET block == slice(cleaned, i, i + 2)
             r == decrypt_block(block, K_inv)
         IN  decrypt_loop(cleaned, K_inv, i + 2, plaintext \o r[1],
                          Append(blocks, [cipher_block |-> block,
                                          cipher_nums  |-> r[3],
                                          plain_nums   |-> r[2],
                                          plain_block  |-> r[1]]))

\* decrypt_full dropping the first letter (cleaned[1:]) instead of the last.

decrypt_full_drop_first(ciphertext, K_inv) ==
  LET cleaned0 == clean_text_keep_alpha(ciphertext)
      cleaned == IF Len(cleaned0) % 2 # 0
                   THEN slice(cleaned0, 1, Len(cleaned0))
                   ELSE cleaned0
      done == decrypt_loop(cleaned, K_inv, 0, << >>, << >>)
  IN  [cleaned   |-> cleaned,
       plaintext |-> done.plaintext,
       blocks    |-> done.blocks]

decrypt_full(ciphertext, K_inv) ==
  LET cleaned0 == clean_text_keep_alpha(ciphertext)
      cleaned == IF Len(cleaned0) % 2 # 0
                   THEN slice(cleaned0, 0, Len(cleaned0) - 1)
                   ELSE cleaned0
      done == decrypt_loop(cleaned, K_inv, 0, << >>, << >>)
  IN  [cleaned   |-> cleaned,
       plaintext |-> done.plaintext,
       blocks    |-> done.blocks]

-----------------------------------------------------------------------------
(* Inputs.                                                                 *)

DefaultKey == << <<3, 3>>, <<2, 5>> >>

\* Sample keys with entries in 0..25: invertible ones and ones whose
\* determinant is 0, even, or 13 modulo 26.
KeyPool ==
  << DefaultKey,
     << <<2, 4>>, <<5, 10>> >>,
     << <<7, 8>>, <<11, 11>> >>,
     << <<2, 3>>, <<1, 8>> >>,
     << <<1, 2>>, <<3, 4>> >>,
     << <<25, 25>>, <<1, 0>> >>,
     << <<0, 1>>, <<1, 0>> >>,
     << <<5, 17>>, <<4, 15>> >>,
     << <<1, 0>>, <<0, 1>> >>,
     << <<25, 24>>, <<23, 0>> >> >>

FirstKeys(n) ==
  { KeyPool[i] : i \in 1..(IF n < Len(KeyPool) THEN n ELSE Len(KeyPool)) }

SessionKeys == FirstKeys(MaxKeys)

FnKeys == FirstKeys(MaxFnKeys)

TextsOver(chars, n) == UNION { [1..k -> chars] : k \in 0..n }

\* A lower-case letter, a space, a digit and a newline.
SessionChars == {"b", " ", "1", "\n"}

SessionTexts == TextsOver(SessionChars, MaxLen)

FnChars == {"B", "N", "Z", "x", "1", " "}

FnTexts == TextsOver(FnChars, MaxFnLen)

NoArg == [K |-> None, text |-> << >>]

Pending == [status |-> "pending"]

-----------------------------------------------------------------------------
(* Session state initialization (app.py, lines 130-138).                   *)

\* What a handler shows: st.error (status "InvalidKey" or "EmptyInput") or
\* the results (status "ok"), with the st.info advisory.
Shown(status, info, cleaned, padded, result, blocks) ==
  [status |-> status, info |-> info, cleaned |-> cleaned,
   padded |-> padded, result |-> result, blocks |-> blocks]

Failed(status) == Shown(status, FALSE, << >>, << >>, << >>, << >>)

InitSession ==
  /\ key_matrix = DefaultKey
  /\ key_inverse = LET r == inverse_matrix_mod26(key_matrix)
                   IN  IF r.ok THEN r.val ELSE None
  /\ last_cipher = << >>

Init ==
  /\ InitSession
  /\ op = "init"
  /\ arg = NoArg
  /\ ret = Failed("none")

-----------------------------------------------------------------------------
(* Sidebar: key configuration (app.py, lines 153-171).                     *)

\* The keys generate_random_key can return: it samples until
\* inverse_matrix_mod26 does not raise.
generate_random_key == { K \in SessionKeys : inverse_matrix_mod26(K).ok }

GenerateRandomKey ==
  /\ \E K \in generate_random_key :
       /\ key_matrix' = K
       /\ key_inverse' = inverse_matrix_mod26(K).val
  /\ op' = "generate"
  /\ arg' = NoArg
  /\ ret' = Failed("ok")
  /\ UNCHANGED last_cipher

\* Set Key without the assignment of None in its except branch.

SetKey_keeps_inverse(a, b, c, d) ==
  LET K == << <<a, b>>, <<c, d>> >>
      r == inverse_matrix_mod26(K)
  IN  /\ key_matrix' = K
      /\ key_inverse' = IF r.ok THEN r.val ELSE key_inverse
      /\ op' = "set_key"
      /\ arg' = [K |-> K, text |-> << >>]
      /\ ret' = IF r.ok THEN Failed("ok") ELSE Failed("InvalidKey")
      /\ UNCHANGED last_cipher

SetKey(a, b, c, d) ==
  LET K == << <<a, b>>, <<c, d>> >>
      r == inverse_matrix_mod26(K)
  IN  /\ key_matrix' = K
      /\ key_inverse' = IF r.ok THEN r.val ELSE None
      /\ op' = "set_key"
      /\ arg' = [K |-> K, text |-> << >>]
      /\ ret' = IF r.ok THEN Failed("ok") ELSE Failed("InvalidKey")
      /\ UNCHANGED last_cipher

-----------------------------------------------------------------------------
(* Encryption panel (app.py, lines 183-209).                               *)

\* The handler without its test of key_inverse.

Encrypt_no_key_check(plaintext) ==
  /\ op' = "encrypt"
  /\ arg' = [K |-> None, text |-> plaintext]
  /\ LET r == encrypt_full(plaintext, key_matrix)
     IN  /\ last_cipher' = r.ciphertext
         /\ ret' = IF r.cleaned = << >>
                     THEN Failed("EmptyInput")
                     ELSE Shown("ok",
                                r.cleaned # remove_char(
                                  remove_char(upper(plaintext), " "), "\n"),
                                r.cleaned, r.padded, r.ciphertext, r.blocks)
  /\ UNCHANGED <<key_matrix, key_inverse>>

\* The handler going back to the default key when the key is not usable.

Encrypt_default_key_fallback(plaintext) ==
  /\ op' = "encrypt"
  /\ arg' = [K |-> None, text |-> plaintext]
  /\ IF key_inverse = None
       THEN /\ ret' = Failed("InvalidKey")
            /\ key_matrix' = DefaultKey
            /\ key_inverse' = inverse_matrix_mod26(DefaultKey).val
            /\ UNCHANGED last_cipher
       ELSE LET r == encrypt_full(plaintext, key_matrix)
            IN  /\ last_cipher' = r.ciphertext
                /\ ret' = IF r.cleaned = << >>
                            THEN Failed("EmptyInput")
                            ELSE Shown("ok",
                                       r.cleaned # remove_char(
                                         remove_char(upper(plaintext), " "),
                                         "\n"),
                                       r.cleaned, r.padded, r.ciphertext,
                                       r.blocks)
                /\ UNCHANGED <<key_matrix, key_inverse>>

\* The handler without its test of cleaned == "".

Encrypt_no_empty_check(plaintext) ==
  /\ op' = "encrypt"
  /\ arg' = [K |-> None, text |-> plaintext]
  /\ IF key_inverse = None
       THEN /\ ret' = Failed("InvalidKey")
            /\ UNCHANGED last_cipher
       ELSE LET r == encrypt_full(plaintext, key_matrix)
            IN  /\ last_cipher' = r.ciphertext
                /\ ret' = Shown("ok",
                                r.cleaned # remove_char(
                                  remove_char(upper(plaintext), " "), "\n"),
                                r.cleaned, r.padded, r.ciphertext, r.blocks)
  /\ UNCHANGED <<key_matrix, key_inverse>>

\* The handler comparing cleaned with plaintext.upper() alone.

Encrypt_naive_advisory(plaintext) ==
  /\ op' = "encrypt"
  /\ arg' = [K |-> None, text |-> plaintext]
  /\ IF key_inverse = None
       THEN /\ ret' = Failed("InvalidKey")
            /\ UNCHANGED last_cipher
       ELSE LET r == encrypt_full(plaintext, key_matrix)
            IN  /\ last_cipher' = r.ciphertext
                /\ ret' = IF r.cleaned = << >>
                            THEN Failed("EmptyInput")
                            ELSE Shown("ok", r.cleaned # upper(plaintext),
                                       r.cleaned, r.padded, r.ciphertext,
                                       r.blocks)
  /\ UNCHANGED <<key_matrix, key_inverse>>

Encrypt(plaintext) ==
  /\ op' = "encrypt"
  /\ arg' = [K |-> None, text |-> plaintext]
  /\ IF key_inverse = None
       THEN /\ ret' = Failed("InvalidKey")
            /\ UNCHANGED last_cipher
       ELSE LET r == encrypt_full(plaintext, key_matrix)
            IN  /\ last_cipher' = r.ciphertext
                /\ ret' = IF r.cleaned = << >>
                            THEN Failed("EmptyInput")
                            ELSE Shown("ok",
                                       r.cleaned # remove_char(
                                         remove_char(upper(plaintext), " "),
                                         "\n"),
                                       r.cleaned, r.padded, r.ciphertext,
                                       r.blocks)
  /\ UNCHANGED <<key_matrix, key_inverse>>

-----------------------------------------------------------------------------
(* Decryption panel (app.py, lines 214-234).  The text area starts with    *)
(* last_cipher in it, so that text can be submitted besides a typed one.   *)

Decrypt(ciphertext_input) ==
  /\ op' = "decrypt"
  /\ arg' = [K |-> None, text |-> ciphertext_input]
  /\ ret' = IF key_inverse = None
              THEN Failed("InvalidKey")
              ELSE LET r == decrypt_full(ciphertext_input, key_inverse)
                   IN  IF r.cleaned = << >>
                         THEN Failed("EmptyInput")
                         ELSE Shown("ok", FALSE, r.cleaned, << >>,
                                    r.plaintext, r.blocks)
  /\ UNCHANGED <<key_matrix, key_inverse, last_cipher>>

Next ==
  \/ GenerateRandomKey
  \/ \E K \in SessionKeys : SetKey(K[1][1], K[1][2], K[2][1], K[2][2])
  \/ \E plaintext \in SessionTexts : Encrypt(plaintext)
  \/ \E ciphertext_input \in SessionTexts \cup {last_cipher} :
       Decrypt(ciphertext_input)

Spec == Init /\ [][Next]_vars

-----------------------------------------------------------------------------
(* inverse_matrix_mod26 on its own: every 2x2 matrix over 0..25.           *)

InitInv ==
  /\ InitSession
  /\ op = "call"
  /\ \E a \in 0..MaxKeyValue, b \in 0..MaxKeyValue,
        c \in 0..MaxKeyValue, d \in 0..MaxKeyValue :
       arg = [K |-> << <<a, b>>, <<c, d>> >>, text |-> << >>]
  /\ ret = Pending

CallInverse ==
  /\ op = "call"
  /\ op' = "inverse_matrix_mod26"
  /\ LET r == inverse_matrix_mod26(arg.K)
     IN  ret' = IF r.ok
                  THEN [status |-> "ok", val |-> r.val]
                  ELSE [status |-> "ValueError", det |-> r.det]
  /\ UNCHANGED <<key_matrix, key_inverse, last_cipher, arg>>

NextInv == CallInverse

SpecInv == InitInv /\ [][NextInv]_vars

-----------------------------------------------------------------------------
(* encrypt_full and decrypt_full on their own.                             *)

InitFn ==
  /\ InitSession
  /\ op = "call"
  /\ \E K \in FnKeys, text \in FnTexts : arg = [K |-> K, text |-> text]
  /\ ret = Pending

CallEncryptFull ==
  /\ op = "call"
  /\ op' = "encrypt_full"
  /\ ret' = [status |-> "ok", val |-> encrypt_full(arg.text, arg.K)]
  /\ UNCHANGED <<key_matrix, key_inverse, last_cipher, arg>>

\* decrypt_full takes any matrix as K_inv.
CallDecryptFull ==
  /\ op = "call"
  /\ op' = "decrypt_full"
  /\ ret' = [status |-> "ok", val |-> decrypt_full(arg.text, arg.K)]
  /\ UNCHANGED <<key_matrix, key_inverse, last_cipher, arg>>

\* encrypt_full under K, then decrypt_full of its ciphertext under
\* inverse_matrix_mod26(K).
CallRoundTrip ==
  /\ op = "call"
  /\ inverse_matrix_mod26(arg.K).ok
  /\ op' = "round_trip"
  /\ LET enc == encrypt_full(arg.text, arg.K)
         dec == decrypt_full(enc.ciphertext, inverse_matrix_mod26(arg.K).val)
     IN  ret' = [status |-> "ok", enc |-> enc, dec |-> dec]
  /\ UNCHANGED <<key_matrix, key_inverse, last_cipher, arg>>

NextFn ==
  \/ CallEncryptFull
  \/ CallDecryptFull
  \/ CallRoundTrip

SpecFn == InitFn /\ [][NextFn]_vars

-----------------------------------------------------------------------------
(* Vocabulary of the properties.                                           *)

RECURSIVE GCD(_, _)
GCD(m, n) == IF n = 0 THEN m ELSE GCD(n, m % n)

Det(K) == (K[1][1] * K[2][2] - K[1][2] * K[2][1]) % modulus

Invertible(K) == GCD(Det(K), modulus) = 1

Identity == << <<1, 0>>, <<0, 1>> >>

MatMulMod(A, B) ==
  [i \in 1..2 |->
    [j \in 1..2 |-> (A[i][1] * B[1][j] + A[i][2] * B[2][j]) % modulus]]

Capitals == { alphabet[i] : i \in 1..modulus }

Letters == Capitals \cup { lowercase[i] : i \in 1..modulus }

HasLetter(text) == \E i \in 1..Len(text) : text[i] \in Letters

IsCapitalText(text) == \A i \in 1..Len(text) : text[i] \in Capitals

ErrorKinds == {"InvalidKey", "EmptyInput"}

-----------------------------------------------------------------------------
(* Properties of encrypt_full and decrypt_full (under SpecFn).             *)

\* C1: for every invertible key K and every non-empty text s of capitals
\* of even length, decrypt_full of the ciphertext of encrypt_full(s, K)
\* under inverse_matrix_mod26(K) gives back s as its plaintext.
C1_RoundTrip ==
  ( /\ op = "round_trip"
    /\ arg.text # << >>
    /\ Len(arg.text) % 2 = 0
    /\ IsCapitalText(arg.text) )
  => ret.dec.plaintext = arg.text

C1_Witness ==
  /\ op = "round_trip"
  /\ arg.K = KeyPool[3]
  /\ arg.text = <<"B", "N", "Z", "B">>
  /\ ret.enc.ciphertext # arg.text
  /\ ret.dec.plaintext = arg.text

\* C8: decrypt_full raises nothing; when the normalized ciphertext has odd
\* length n it drops exactly the last letter, and the cleaned text and the
\* plaintext it returns both have length n - 1; when n is even nothing is
\* dropped and the plaintext has length n.
C8_OddLengthTruncation ==
  op = "decrypt_full" =>
    LET c == clean_text_keep_alpha(arg.text)
        n == Len(c)
    IN  /\ ret.status = "ok"
        /\ IF n % 2 = 1
             THEN /\ ret.val.cleaned = SubSeq(c, 1, n - 1)
                  /\ Len(ret.val.plaintext) = n - 1
             ELSE /\ ret.val.cleaned = c
                  /\ Len(ret.val.plaintext) = n

C8_Witness ==
  /\ op = "decrypt_full"
  /\ arg.text = <<"x", "B", "Z">>
  /\ ret.val.cleaned = <<"X", "B">>
  /\ Len(ret.val.plaintext) = 2

-----------------------------------------------------------------------------
(* Properties of inverse_matrix_mod26 (under SpecInv).                     *)

\* C2: inverse_matrix_mod26(K) returns a matrix exactly when the determinant
\* of K modulo 26 is coprime with 26; for every other K it raises the error
\* that names the determinant reduced into 0..25.
C2_InvertibilityGate ==
  op = "inverse_matrix_mod26" =>
    IF GCD(Det(arg.K), modulus) = 1
      THEN ret.status = "ok"
      ELSE /\ ret.status = "ValueError"
           /\ ret.det = Det(arg.K)
           /\ ret.det \in 0..(modulus - 1)

C2_Witness ==
  /\ op = "inverse_matrix_mod26"
  /\ arg.K = << <<2, 4>>, <<5, 10>> >>
  /\ ret.status = "ValueError"
  /\ ret.det = 0

\* C3: a matrix returned by inverse_matrix_mod26(K) has its four entries in
\* 0..25 and is the inverse of K modulo 26 on both sides.
C3_InverseCorrect ==
  (op = "inverse_matrix_mod26" /\ ret.status = "ok") =>
    /\ \A i \in 1..2, j \in 1..2 : ret.val[i][j] \in 0..(modulus - 1)
    /\ MatMulMod(arg.K, ret.val) = Identity
    /\ MatMulMod(ret.val, arg.K) = Identity

C3_Witness ==
  /\ op = "inverse_matrix_mod26"
  /\ arg.K = KeyPool[3]
  /\ ret.status = "ok"
  /\ ret.val # arg.K

\* C4 as claimed: for the default key [[3,3],[2,5]] the determinant is 9,
\* the inverse of 9 is 3, and the inverse matrix is [[15,19],[20,9]].
C4_Scenario1_AsClaimed ==
  (op = "inverse_matrix_mod26" /\ arg.K = DefaultKey) =>
    /\ Det(arg.K) = 9
    /\ find_inverse(9) = [ok |-> TRUE, val |-> 3]
    /\ ret.status = "ok"
    /\ ret.val = << <<15, 19>>, <<20, 9>> >>

\* C4 as amended: for the default key [[3,3],[2,5]] the determinant is 9,
\* the inverse of 9 is 3, and the inverse matrix, which the session also
\* starts with, is [[15,17],[20,9]].
C4_Scenario1 ==
  (op = "inverse_matrix_mod26" /\ arg.K = DefaultKey) =>
    /\ Det(arg.K) = 9
    /\ find_inverse(9) = [ok |-> TRUE, val |-> 3]
    /\ ret.status = "ok"
    /\ ret.val = << <<15, 17>>, <<20, 9>> >>
    /\ key_matrix = DefaultKey
    /\ key_inverse = ret.val

C4_Witness ==
  /\ op = "inverse_matrix_mod26"
  /\ arg.K = DefaultKey
  /\ ret.status = "ok"

-----------------------------------------------------------------------------
(* Properties of the session (under Spec).                                 *)

\* C5: an Encrypt submitted while the held key is not invertible modulo 26
\* fails with InvalidKey, shows nothing and leaves last_cipher as it was, so
\* no ciphertext is ever computed under a non-invertible key.
C5_InvalidKeyOnEncrypt ==
  [][ (op' = "encrypt" /\ ~Invertible(key_matrix)) =>
        /\ ret' = Failed("InvalidKey")
        /\ last_cipher' = last_cipher ]_vars

C5_Witness ==
  /\ op = "encrypt"
  /\ ~Invertible(key_matrix)
  /\ HasLetter(arg.text)
  /\ ret.status = "InvalidKey"
  /\ last_cipher # << >>

C7_AsClaimed ==
  [][ ret'.status \in ErrorKinds =>
        (key_matrix' = key_matrix /\ key_inverse' = key_inverse) ]_vars

\* C7 as amended: every Encrypt or Decrypt that fails leaves key_matrix and
\* key_inverse as they were; a Set Key with a key that is not invertible
\* stores that key and sets key_inverse to None.
C7_StateOnError ==
  [][ /\ (op' \in {"encrypt", "decrypt"} /\ ret'.status \in ErrorKinds) =>
           (key_matrix' = key_matrix /\ key_inverse' = key_inverse)
      /\ (op' = "set_key" /\ ret'.status \in ErrorKinds) =>
           (key_matrix' = arg'.K /\ key_inverse' = None) ]_vars

C7_Witness ==
  /\ op = "decrypt"
  /\ ret.status = "InvalidKey"
  /\ key_matrix = KeyPool[2]
  /\ key_inverse = None

\* C9: in every reachable state key_inverse is None exactly when key_matrix
\* is not invertible modulo 26, and otherwise it is the inverse of the key
\* now stored.
C9_KeyInverseConsistent ==
  /\ key_inverse = None <=> ~Invertible(key_matrix)
  /\ key_inverse # None =>
       /\ key_inverse = inverse_matrix_mod26(key_matrix).val
       /\ MatMulMod(key_matrix, key_inverse) = Identity

C9_Witness ==
  /\ op = "set_key"
  /\ key_matrix = KeyPool[2]
  /\ key_inverse = None
  /\ last_cipher # << >>

\* C10 as claimed: the advisory of Encrypt is raised exactly when the
\* normalized text differs from the upper-cased input.
C10_AsClaimed ==
  op = "encrypt" =>
    (ret.info <=> clean_text_keep_alpha(arg.text) # upper(arg.text))

\* C10 as amended: for a text with a letter, encrypted under a usable key,
\* the advisory is raised exactly when the normalized text differs from the
\* upper-cased input without its spaces and newlines, that is when some
\* character other than a letter, a space or a newline was removed; for a
\* text without a letter, or under a key that is not invertible, it is not
\* raised.
C10_Advisory ==
  op = "encrypt" =>
    /\ ret.status = "ok" <=> (key_inverse # None /\ HasLetter(arg.text))
    /\ ret.info <=>
         /\ ret.status = "ok"
         /\ \E i \in 1..Len(arg.text) :
              arg.text[i] \notin Letters \cup {" ", "\n"}
    /\ ret.status = "ok" =>
         (ret.info <=>
            ret.cleaned #
              remove_char(remove_char(upper(arg.text), " "), "\n"))

C10_Witness ==
  /\ op = "encrypt"
  /\ arg.text = <<"b", " ">>
  /\ ret.status = "ok"
  /\ ~ret.info

====
